---- MODULE Spec2Model ----
(***************************************************************************)
(* Model of cli.py: the CLIInput bridge between two queues and the stdin / *)
(* stdout streams.  One owner thread calls start() and stop(); each        *)
(* launching start() creates one reader thread                             *)
(* (_read_commands_from_prompt) and one writer thread                      *)
(* (_output_commands_to_prompt).  Thread steps are the blocking or         *)
(* shared-state operations of the loops, so that every interleaving the    *)
(* interpreter can produce between them is explored.                       *)
(***************************************************************************)
EXTENDS Integers, Sequences, FiniteSets

\* ---------------------------------------------------------------- bounds
\* Number of start() calls that launch threads.
MaxStarts == 2
\* Number of items (lines or end-of-stream results) the input stream delivers.
MaxFeed == 2
\* Number of strings the application puts on the to-user queue.
MaxPut == 2
\* Length of the longest raw line the input stream returns.
MaxLen == 3

\* ---------------------------------------------------------------- values
NL == "\n"

\* The result of readline() at end-of-stream: the zero-length string.
EOF == <<>>

\* Raw lines the input stream may return (strings are sequences of characters).
RawLines == { <<"a", NL>>, <<NL>> }

\* Every raw line of up to MaxLen characters over a letter and the newline;
\* MockStdInOut.readline returns whatever string was appended, so a raw line
\* may carry newlines anywhere.
AnyRawLines ==
    UNION { [1..n -> {"a", NL}] : n \in 1..MaxLen }

\* Strings the application puts on the to-user queue.
Msgs == { <<"a">>, <<"b">> }

\* Queue items placed on the from-user queue: a string, or Python's None.
Str(s) == [isNone |-> FALSE, s |-> s]
None == [isNone |-> TRUE, s |-> <<>>]

\* Thread identities: the k-th launching start() creates reader k and writer k.
Threads == 1..MaxStarts
\* Value of a thread handle before the first start() (Python None).
NoThread == 0

VARIABLES
    running,            \* self._running
    to_user_thread,     \* self._to_user_thread (index of the Thread object)
    from_user_thread,   \* self._from_user_thread
    to_user_queue,      \* self._to_user_queue contents
    from_user_queue,    \* self._from_user_queue contents
    stdin,              \* data the input stream will return on later reads
    stdout,             \* strings written to the output stream, in order
    flushed,            \* how many of the written strings have been flushed
    rpc,                \* position of each reader thread
    raw_command,        \* local raw_command of each reader thread
    wpc,                \* position of each writer thread
    response,           \* local response of each writer thread
    ownerPc,            \* position of the owner inside stop()
    delivered,          \* history: results returned by readline(), in order
    taken,              \* history: strings returned by to_user_queue.get()
    putRunning,         \* history: positions (in put order) put while running
    lastCall,           \* history: most recent lifecycle call
    prevCall            \* history: the lifecycle call before that

vars == << running, to_user_thread, from_user_thread, to_user_queue,
           from_user_queue, stdin, stdout, flushed, rpc, raw_command, wpc,
           response, ownerPc, delivered, taken, putRunning, lastCall,
           prevCall >>

\* The object's own fields and its threads (everything but the histories).
objVars == << running, to_user_thread, from_user_thread, rpc, raw_command,
              wpc, response, ownerPc >>
ioVars == << to_user_queue, from_user_queue, stdin, stdout, flushed,
             delivered, taken >>
readerVars == << rpc, raw_command >>
writerVars == << wpc, response >>
callVars == << lastCall, prevCall >>

\* ------------------------------------------------------- pure functions
\* Variant of rstrip that removes the last newline only.
rstrip_OnlyLast(s) ==
    IF s # <<>> /\ s[Len(s)] = NL
    THEN SubSeq(s, 1, Len(s) - 1)
    ELSE s

\* str.rstrip('\n'): remove every trailing newline character.
RECURSIVE rstrip(_)
rstrip(s) ==
    IF s # <<>> /\ s[Len(s)] = NL
    THEN rstrip(SubSeq(s, 1, Len(s) - 1))
    ELSE s

\* '{}\n'.format(response)
Format(r) == r \o << NL >>

\* ------------------------------------------------------------ helpers
ReaderActive(r) == rpc[r] \in {"top", "readline", "put"}
WriterActive(w) == wpc[w] \in {"top", "get", "write"}
Launched == Cardinality({ t \in Threads : rpc[t] # "unstarted" })

\* ---------------------------------------------------------------- Init
Init ==
    /\ running = FALSE
    /\ to_user_thread = NoThread
    /\ from_user_thread = NoThread
    /\ to_user_queue = <<>>
    /\ from_user_queue = <<>>
    /\ stdin = <<>>
    /\ stdout = <<>>
    /\ flushed = 0
    /\ rpc = [t \in Threads |-> "unstarted"]
    /\ raw_command = [t \in Threads |-> EOF]
    /\ wpc = [t \in Threads |-> "unstarted"]
    /\ response = [t \in Threads |-> <<>>]
    /\ ownerPc = "idle"
    /\ delivered = <<>>
    /\ taken = <<>>
    /\ putRunning = {}
    /\ lastCall = "none"
    /\ prevCall = "none"

\* ------------------------------------------------------------ lifecycle
\* _start_threads(): create both Thread objects, store them, start them.
StartThreads(k) ==
    /\ to_user_thread' = k
    /\ from_user_thread' = k
    /\ wpc' = [wpc EXCEPT ![k] = "top"]
    /\ rpc' = [rpc EXCEPT ![k] = "top"]

\* Variant of start() without the "if not self._running" guard.
Start_AlwaysLaunches ==
    /\ ownerPc = "idle"
    /\ lastCall' = "start"
    /\ prevCall' = lastCall
    /\ Launched < MaxStarts
    /\ running' = TRUE
    /\ StartThreads(Launched + 1)
    /\ UNCHANGED << raw_command, response, ownerPc >>
    /\ UNCHANGED << ioVars, putRunning >>

\* start(): launches only when not running.
Start ==
    /\ ownerPc = "idle"
    /\ lastCall' = "start"
    /\ prevCall' = lastCall
    /\ IF ~running
       THEN /\ Launched < MaxStarts
            /\ running' = TRUE
            /\ StartThreads(Launched + 1)
            /\ UNCHANGED << raw_command, response, ownerPc >>
       ELSE UNCHANGED objVars
    /\ UNCHANGED << ioVars, putRunning >>

\* stop(): clears the flag, then waits in _join_threads().
Stop ==
    /\ ownerPc = "idle"
    /\ lastCall' = "stop"
    /\ prevCall' = lastCall
    /\ IF running
       THEN /\ running' = FALSE
            /\ ownerPc' = "join_to_user"
            /\ UNCHANGED << to_user_thread, from_user_thread, rpc,
                            raw_command, wpc, response >>
       ELSE UNCHANGED objVars
    /\ UNCHANGED << ioVars, putRunning >>

\* Variant of the first join without a timeout: join() waits for the thread.
JoinToUser_NoTimeout ==
    /\ ownerPc = "join_to_user"
    /\ wpc[to_user_thread] = "done"
    /\ ownerPc' = "join_from_user"
    /\ UNCHANGED << running, to_user_thread, from_user_thread, rpc,
                    raw_command, wpc, response >>
    /\ UNCHANGED ioVars
    /\ UNCHANGED << callVars, putRunning >>

\* self._to_user_thread.join(2 * OUTPUT_QUEUE_BLOCK_TIME): returns when the
\* thread has ended or when the timeout has elapsed, whichever is first.
JoinToUser ==
    /\ ownerPc = "join_to_user"
    /\ \/ wpc[to_user_thread] = "done"
       \/ TRUE
    /\ ownerPc' = "join_from_user"
    /\ UNCHANGED << running, to_user_thread, from_user_thread, rpc,
                    raw_command, wpc, response >>
    /\ UNCHANGED ioVars
    /\ UNCHANGED << callVars, putRunning >>

\* self._from_user_thread.join(2 * OUTPUT_QUEUE_BLOCK_TIME), then stop() returns.
JoinFromUser ==
    /\ ownerPc = "join_from_user"
    /\ \/ rpc[from_user_thread] = "done"
       \/ TRUE
    /\ ownerPc' = "idle"
    /\ UNCHANGED << running, to_user_thread, from_user_thread, rpc,
                    raw_command, wpc, response >>
    /\ UNCHANGED ioVars
    /\ UNCHANGED << callVars, putRunning >>

\* ------------------------------------------------------------ reader loop
\* Variant of the reader's loop test that never looks at the flag.
ReaderLoopTop_IgnoresFlag(r) ==
    /\ rpc[r] = "top"
    /\ rpc' = [rpc EXCEPT ![r] = "readline"]
    /\ UNCHANGED << running, to_user_thread, from_user_thread, raw_command,
                    wpc, response, ownerPc >>
    /\ UNCHANGED ioVars
    /\ UNCHANGED << callVars, putRunning >>

\* while self._running:
ReaderLoopTop(r) ==
    /\ rpc[r] = "top"
    /\ rpc' = [rpc EXCEPT ![r] = IF running THEN "readline" ELSE "done"]
    /\ UNCHANGED << running, to_user_thread, from_user_thread, raw_command,
                    wpc, response, ownerPc >>
    /\ UNCHANGED ioVars
    /\ UNCHANGED << callVars, putRunning >>

\* raw_command = self._stdin.readline(): blocks until the stream has data.
ReaderReadline(r) ==
    /\ rpc[r] = "readline"
    /\ stdin # <<>>
    /\ raw_command' = [raw_command EXCEPT ![r] = Head(stdin)]
    /\ stdin' = Tail(stdin)
    /\ delivered' = Append(delivered, Head(stdin))
    /\ rpc' = [rpc EXCEPT ![r] = "put"]
    /\ UNCHANGED << running, to_user_thread, from_user_thread, wpc, response,
                    ownerPc >>
    /\ UNCHANGED << to_user_queue, from_user_queue, stdout, flushed,
                    taken >>
    /\ UNCHANGED << callVars, putRunning >>

\* Variant of ReaderReadError in which the failed read also stops the CLI.
ReaderReadError_ClearsRunning(r) ==
    /\ rpc[r] = "readline"
    /\ rpc' = [rpc EXCEPT ![r] = "done"]
    /\ running' = FALSE
    /\ UNCHANGED << to_user_thread, from_user_thread, raw_command, wpc,
                    response, ownerPc >>
    /\ UNCHANGED ioVars
    /\ UNCHANGED << callVars, putRunning >>

\* self._stdin.readline() raises (an I/O error): nothing in the loop catches
\* it, so it leaves the thread's target and the reader thread ends.
ReaderReadError(r) ==
    /\ rpc[r] = "readline"
    /\ rpc' = [rpc EXCEPT ![r] = "done"]
    /\ UNCHANGED << running, to_user_thread, from_user_thread, raw_command,
                    wpc, response, ownerPc >>
    /\ UNCHANGED ioVars
    /\ UNCHANGED << callVars, putRunning >>

\* Variant of ReaderPut in which seeing end-of-stream also clears the flag.
ReaderPut_EofClearsRunning(r) ==
    /\ rpc[r] = "put"
    /\ IF raw_command[r] = EOF
       THEN /\ from_user_queue' = Append(from_user_queue, None)
            /\ rpc' = [rpc EXCEPT ![r] = "done"]
            /\ running' = FALSE
       ELSE /\ from_user_queue' =
                   Append(from_user_queue, Str(rstrip(raw_command[r])))
            /\ rpc' = [rpc EXCEPT ![r] = "top"]
            /\ UNCHANGED running
    /\ raw_command' = [raw_command EXCEPT ![r] = EOF]
    /\ UNCHANGED << to_user_thread, from_user_thread, wpc, response,
                    ownerPc >>
    /\ UNCHANGED << to_user_queue, stdin, stdout, flushed, delivered,
                    taken >>
    /\ UNCHANGED << callVars, putRunning >>

\* Variant of ReaderPut without the `break` after the sentinel.
ReaderPut_NoBreakOnEof(r) ==
    /\ rpc[r] = "put"
    /\ from_user_queue' =
           Append(from_user_queue,
                  IF raw_command[r] = EOF THEN None
                  ELSE Str(rstrip(raw_command[r])))
    /\ rpc' = [rpc EXCEPT ![r] = "top"]
    /\ raw_command' = [raw_command EXCEPT ![r] = EOF]
    /\ UNCHANGED << running, to_user_thread, from_user_thread, wpc, response,
                    ownerPc >>
    /\ UNCHANGED << to_user_queue, stdin, stdout, flushed, delivered,
                    taken >>
    /\ UNCHANGED << callVars, putRunning >>

\* Variant of ReaderPut that forwards a line only while the flag is set.
ReaderPut_DropsWhenStopped(r) ==
    /\ rpc[r] = "put"
    /\ IF raw_command[r] = EOF
       THEN /\ from_user_queue' = Append(from_user_queue, None)
            /\ rpc' = [rpc EXCEPT ![r] = "done"]
       ELSE /\ from_user_queue' =
                   IF running
                   THEN Append(from_user_queue, Str(rstrip(raw_command[r])))
                   ELSE from_user_queue
            /\ rpc' = [rpc EXCEPT ![r] = "top"]
    /\ raw_command' = [raw_command EXCEPT ![r] = EOF]
    /\ UNCHANGED << running, to_user_thread, from_user_thread, wpc, response,
                    ownerPc >>
    /\ UNCHANGED << to_user_queue, stdin, stdout, flushed, delivered,
                    taken >>
    /\ UNCHANGED << callVars, putRunning >>

\* Variant of ReaderPut that tests the stripped command for emptiness, so
\* that a blank line is taken for end-of-stream.
ReaderPut_BlankIsEof(r) ==
    /\ rpc[r] = "put"
    /\ IF rstrip(raw_command[r]) = <<>>
       THEN /\ from_user_queue' = Append(from_user_queue, None)
            /\ rpc' = [rpc EXCEPT ![r] = "done"]
       ELSE /\ from_user_queue' =
                   Append(from_user_queue, Str(rstrip(raw_command[r])))
            /\ rpc' = [rpc EXCEPT ![r] = "top"]
    /\ raw_command' = [raw_command EXCEPT ![r] = EOF]
    /\ UNCHANGED << running, to_user_thread, from_user_thread, wpc, response,
                    ownerPc >>
    /\ UNCHANGED << to_user_queue, stdin, stdout, flushed, delivered,
                    taken >>
    /\ UNCHANGED << callVars, putRunning >>

\* if raw_command == '': put(None); break
\* else: put(raw_command.rstrip('\n')) and loop.
ReaderPut(r) ==
    /\ rpc[r] = "put"
    /\ IF raw_command[r] = EOF
       THEN /\ from_user_queue' = Append(from_user_queue, None)
            /\ rpc' = [rpc EXCEPT ![r] = "done"]
       ELSE /\ from_user_queue' =
                   Append(from_user_queue, Str(rstrip(raw_command[r])))
            /\ rpc' = [rpc EXCEPT ![r] = "top"]
    /\ raw_command' = [raw_command EXCEPT ![r] = EOF]
    /\ UNCHANGED << running, to_user_thread, from_user_thread, wpc, response,
                    ownerPc >>
    /\ UNCHANGED << to_user_queue, stdin, stdout, flushed, delivered,
                    taken >>
    /\ UNCHANGED << callVars, putRunning >>

\* ------------------------------------------------------------ writer loop
\* Variant of the writer's loop test that also gives up on an empty queue.
WriterLoopTop_ExitsWhenIdle(w) ==
    /\ wpc[w] = "top"
    /\ wpc' = [wpc EXCEPT ![w] = IF running /\ to_user_queue # <<>>
                                 THEN "get" ELSE "done"]
    /\ UNCHANGED << running, to_user_thread, from_user_thread, rpc,
                    raw_command, response, ownerPc >>
    /\ UNCHANGED ioVars
    /\ UNCHANGED << callVars, putRunning >>

\* Variant of WriterLoopTop in which a writer that finds the flag cleared
\* tells the application so by putting the sentinel on the from-user queue.
WriterLoopTop_SignalsExit(w) ==
    /\ wpc[w] = "top"
    /\ wpc' = [wpc EXCEPT ![w] = IF running THEN "get" ELSE "done"]
    /\ from_user_queue' = IF running THEN from_user_queue
                          ELSE Append(from_user_queue, None)
    /\ UNCHANGED << running, to_user_thread, from_user_thread, rpc,
                    raw_command, response, ownerPc >>
    /\ UNCHANGED << to_user_queue, stdin, stdout, flushed, delivered, taken >>
    /\ UNCHANGED << callVars, putRunning >>

\* while self._running:
WriterLoopTop(w) ==
    /\ wpc[w] = "top"
    /\ wpc' = [wpc EXCEPT ![w] = IF running THEN "get" ELSE "done"]
    /\ UNCHANGED << running, to_user_thread, from_user_thread, rpc,
                    raw_command, response, ownerPc >>
    /\ UNCHANGED ioVars
    /\ UNCHANGED << callVars, putRunning >>

\* response = self._to_user_queue.get(OUTPUT_QUEUE_BLOCK_TIME)
\* Queue.get(block=True, timeout=None): the positional argument is `block`,
\* so the call is get(block=0.25, timeout=None), which waits without a
\* timeout and never raises queue.Empty.
WriterGet(w) ==
    /\ wpc[w] = "get"
    /\ to_user_queue # <<>>
    /\ response' = [response EXCEPT ![w] = Head(to_user_queue)]
    /\ to_user_queue' = Tail(to_user_queue)
    /\ taken' = Append(taken, Head(to_user_queue))
    /\ wpc' = [wpc EXCEPT ![w] = "write"]
    /\ UNCHANGED << running, to_user_thread, from_user_thread, rpc,
                    raw_command, ownerPc >>
    /\ UNCHANGED << from_user_queue, stdin, stdout, flushed,
                    delivered >>
    /\ UNCHANGED << callVars, putRunning >>

\* self._stdout.write('{}\n'.format(response)); self._stdout.flush()
WriterWrite(w) ==
    /\ wpc[w] = "write"
    /\ stdout' = Append(stdout, Format(response[w]))
    /\ flushed' = Len(stdout) + 1
    /\ wpc' = [wpc EXCEPT ![w] = "top"]
    /\ response' = [response EXCEPT ![w] = <<>>]
    /\ UNCHANGED << running, to_user_thread, from_user_thread, rpc,
                    raw_command, ownerPc >>
    /\ UNCHANGED << to_user_queue, from_user_queue, stdin, delivered, taken >>
    /\ UNCHANGED << callVars, putRunning >>

\* ------------------------------------------------------------ environment
\* Everything the stream has returned or will return.
StreamData == delivered \o stdin
AtEndOfStream == \E i \in 1..Len(StreamData) : StreamData[i] = EOF

\* The user types a line (MockStdInOut.to_send_data.append(line)).
FeedLine(l) ==
    /\ Len(StreamData) < MaxFeed
    /\ ~AtEndOfStream
    /\ stdin' = Append(stdin, l)
    /\ UNCHANGED objVars
    /\ UNCHANGED << to_user_queue, from_user_queue, stdout, flushed,
                    delivered, taken >>
    /\ UNCHANGED << callVars, putRunning >>

\* The stream reaches end-of-stream; a stream at end-of-stream answers every
\* later read with '' as well.
FeedEOF ==
    /\ Len(StreamData) < MaxFeed
    /\ stdin' = Append(stdin, EOF)
    /\ UNCHANGED objVars
    /\ UNCHANGED << to_user_queue, from_user_queue, stdout, flushed,
                    delivered, taken >>
    /\ UNCHANGED << callVars, putRunning >>

\* The application calls to_user_queue.put(m).
AppPut(m) ==
    /\ Len(taken) + Len(to_user_queue) < MaxPut
    /\ to_user_queue' = Append(to_user_queue, m)
    /\ putRunning' = IF running
                     THEN putRunning \cup {Len(taken) + Len(to_user_queue) + 1}
                     ELSE putRunning
    /\ UNCHANGED objVars
    /\ UNCHANGED << from_user_queue, stdin, stdout, flushed, delivered,
                    taken >>
    /\ UNCHANGED callVars

\* ---------------------------------------------------------- specification
Next ==
    \/ Start
    \/ Stop
    \/ JoinToUser
    \/ JoinFromUser
    \/ \E r \in Threads : ReaderLoopTop(r)
    \/ \E r \in Threads : ReaderReadline(r)
    \/ \E r \in Threads : ReaderReadError(r)
    \/ \E r \in Threads : ReaderPut(r)
    \/ \E w \in Threads : WriterLoopTop(w)
    \/ \E w \in Threads : WriterGet(w)
    \/ \E w \in Threads : WriterWrite(w)
    \/ \E l \in RawLines : FeedLine(l)
    \/ FeedEOF
    \/ \E m \in Msgs : AppPut(m)

Spec == Init /\ [][Next]_vars

\* A timed join returns once its timeout has elapsed.
FairnessOwner ==
    /\ WF_vars(JoinToUser)
    /\ WF_vars(JoinFromUser)

\* The scheduler runs every reader thread that can take a step.
FairnessIn ==
    \A t \in Threads :
        /\ WF_vars(ReaderLoopTop(t))
        /\ WF_vars(ReaderReadline(t))
        /\ WF_vars(ReaderPut(t))

\* The scheduler runs every writer thread that can take a step.
FairnessOut ==
    \A t \in Threads :
        /\ WF_vars(WriterLoopTop(t))
        /\ WF_vars(WriterGet(t))
        /\ WF_vars(WriterWrite(t))

\* The owner, the user and the application are under no obligation to act.
Fairness == FairnessOwner /\ FairnessIn /\ FairnessOut

FairSpec == Spec /\ Fairness

\* The input side alone: the owner, the reader threads and the user.  The
\* writer threads are launched but not scheduled; no reader step reads or
\* writes anything a writer step touches.
NextIn ==
    \/ Start
    \/ Stop
    \/ JoinToUser
    \/ JoinFromUser
    \/ \E r \in Threads : ReaderLoopTop(r)
    \/ \E r \in Threads : ReaderReadline(r)
    \/ \E r \in Threads : ReaderReadError(r)
    \/ \E r \in Threads : ReaderPut(r)
    \/ \E l \in RawLines : FeedLine(l)
    \/ FeedEOF

SpecIn == Init /\ [][NextIn]_vars
FairSpecIn == SpecIn /\ FairnessOwner /\ FairnessIn

\* The output side alone: the owner, the writer threads and the application.
NextOut ==
    \/ Start
    \/ Stop
    \/ JoinToUser
    \/ JoinFromUser
    \/ \E w \in Threads : WriterLoopTop(w)
    \/ \E w \in Threads : WriterGet(w)
    \/ \E w \in Threads : WriterWrite(w)
    \/ \E m \in Msgs : AppPut(m)

SpecOut == Init /\ [][NextOut]_vars
FairSpecOut == SpecOut /\ FairnessOwner /\ FairnessOut

\* The output side together with reader loops whose reads fail: the stream
\* never has data, so a read either stays blocked or raises.
NextErr ==
    \/ Start
    \/ Stop
    \/ JoinToUser
    \/ JoinFromUser
    \/ \E r \in Threads : ReaderLoopTop(r)
    \/ \E r \in Threads : ReaderReadError(r)
    \/ \E w \in Threads : WriterLoopTop(w)
    \/ \E w \in Threads : WriterGet(w)
    \/ \E w \in Threads : WriterWrite(w)
    \/ \E m \in Msgs : AppPut(m)

SpecErr == Init /\ [][NextErr]_vars
FairSpecErr ==
    /\ SpecErr
    /\ FairnessOwner
    /\ FairnessOut
    /\ \A t \in Threads : WF_vars(ReaderLoopTop(t))

\* The input side with an arbitrary first raw line: the stream starts with
\* one raw line of AnyRawLines (or at end-of-stream) waiting to be read.
InitLines ==
    /\ running = FALSE
    /\ to_user_thread = NoThread
    /\ from_user_thread = NoThread
    /\ to_user_queue = <<>>
    /\ from_user_queue = <<>>
    /\ stdin \in { << l >> : l \in AnyRawLines \cup {EOF} }
    /\ stdout = <<>>
    /\ flushed = 0
    /\ rpc = [t \in Threads |-> "unstarted"]
    /\ raw_command = [t \in Threads |-> EOF]
    /\ wpc = [t \in Threads |-> "unstarted"]
    /\ response = [t \in Threads |-> <<>>]
    /\ ownerPc = "idle"
    /\ delivered = <<>>
    /\ taken = <<>>
    /\ putRunning = {}
    /\ lastCall = "none"
    /\ prevCall = "none"

SpecLines == InitLines /\ [][NextIn]_vars
FairSpecLines == SpecLines /\ FairnessOwner /\ FairnessIn

\* ------------------------------------------------------------------ C1
\* C1: the running property is true exactly when the most recent lifecycle
\* call was start(); it is false before the first start() and after a
\* stop(), and no step of a loop (end-of-stream included) changes it.
C1_RunningIffLastCallStart == running <=> (lastCall = "start")

\* The current reader loop has ended on end-of-stream while still running.
C1_Witness ==
    /\ running
    /\ from_user_thread # NoThread
    /\ rpc[from_user_thread] = "done"
    /\ \E i \in 1..Len(from_user_queue) : from_user_queue[i] = None

\* ------------------------------------------------------------------ C5
\* C5: start() while running and stop() while stopped change nothing: no
\* thread is launched or joined, and the flag, the thread handles, the
\* queues and the streams are left as they were.
C5_RepeatedCallIsNoOp ==
    [][ /\ (Start /\ running) => UNCHANGED << objVars, ioVars, putRunning >>
        /\ (Stop /\ ~running) => UNCHANGED << objVars, ioVars, putRunning >> ]_vars

\* start() has just been called on a bridge that the previous start() launched.
C5_Witness ==
    /\ lastCall = "start"
    /\ prevCall = "start"
    /\ running
    /\ Launched = 1

\* ------------------------------------------------------------------ C7
\* C7: stop() on a running bridge always returns: each join ends at the
\* latest when its timeout elapses, whether or not the joined loop has
\* exited, and the flag is false from the first step of stop() to its return.
C7_StopReturnsWithFlagFalse ==
    /\ [](ownerPc # "idle" => ~running)
    /\ [][ownerPc # "idle" /\ ownerPc' = "idle" => ~running']_vars
    /\ (ownerPc # "idle") ~> (ownerPc = "idle")

\* stop() has returned while the writer loop it joined is still waiting on
\* the queue and the reader loop it joined has not ended either.
C7_Witness ==
    /\ lastCall = "stop"
    /\ ownerPc = "idle"
    /\ ~running
    /\ to_user_thread # NoThread
    /\ wpc[to_user_thread] = "get"
    /\ ReaderActive(from_user_thread)

\* ----------------------------------------------------------- operators
IsPrefix(s, t) == Len(s) <= Len(t) /\ \A i \in 1..Len(s) : s[i] = t[i]
Count(s, v) == Cardinality({ i \in 1..Len(s) : s[i] = v })
Map(f(_), s) == [i \in 1..Len(s) |-> f(s[i])]

\* What the reader loop puts on the queue for one result of readline().
Forwarded(raw) == IF raw = EOF THEN None ELSE Str(rstrip(raw))

\* Everything the application has put on the to-user queue, in put order.
AllPut == taken \o to_user_queue

ActiveReaders == { r \in Threads : ReaderActive(r) }
ActiveWriters == { w \in Threads : WriterActive(w) }

\* ------------------------------------------------------------------ C2
\* C2: the from-user queue holds the results of the reads in the order in
\* which the stream delivered them, under every interleaving and every
\* sequence of start()/stop() calls.
C2_InboundKeepsStreamOrder ==
    IsPrefix(from_user_queue, Map(Forwarded, delivered))

\* ------------------------------------------------------------------ C3
\* The n-th string put has been taken, and every string taken so far has been
\* written and flushed.
WrittenUpTo(n) ==
    /\ Len(taken) >= n
    /\ Len(stdout) = Len(taken)
    /\ flushed = Len(stdout)

\* C3 as stated: every string put while running is eventually written and
\* flushed with no further put, stop() right after the put included.
C3_PutWhileRunningIsWritten ==
    \A n \in 1..MaxPut : (n \in putRunning) ~> WrittenUpTo(n)

\* C3 (amended): every string put while running is eventually written and
\* flushed with no further put, unless the bridge is stopped before a writer
\* loop has taken it; what is written is a taken string followed by exactly
\* one newline, and every write is followed by a flush.
C3_PutWhileRunningIsWrittenUnlessStopped ==
    /\ \A n \in 1..MaxPut :
         (n \in putRunning) ~> (WrittenUpTo(n) \/ (~running /\ Len(taken) < n))
    /\ [](\A i \in 1..Len(stdout) : \E j \in 1..Len(taken) :
            /\ Len(stdout[i]) = Len(taken[j]) + 1
            /\ SubSeq(stdout[i], 1, Len(taken[j])) = taken[j]
            /\ stdout[i][Len(stdout[i])] = NL)
    /\ [](flushed = Len(stdout))

\* A string put while running has been written and flushed, still running.
C3_Witness ==
    /\ running
    /\ 1 \in putRunning
    /\ WrittenUpTo(1)
    /\ stdout[1] = taken[1] \o << NL >>

\* ------------------------------------------------------------------ C4
NumSentinels == Count(from_user_queue, None)
SentinelIsLast ==
    \A i \in 1..Len(from_user_queue) :
        from_user_queue[i] = None => i = Len(from_user_queue)

C6_WriterEndsAfterStop ==
    \A w \in Threads :
        (~running /\ WriterActive(w)) ~> (wpc[w] = "done" \/ running)

\* ------------------------------------------------------------------ C8
\* C8: at most one reader loop and at most one writer loop are active.
C8_AtMostOneLoopOfEachKind ==
    /\ Cardinality(ActiveReaders) <= 1
    /\ Cardinality(ActiveWriters) <= 1

\* ------------------------------------------------------------------ C9
\* C9: every result a reader loop has consumed is on the from-user queue
\* exactly once or still held by that loop, and every string a writer loop
\* has taken is on the output stream exactly once or still held by that
\* loop; nothing else is on the queue or the stream.
C9_NothingLostOrDuplicated ==
    /\ \A v \in { Forwarded(l) : l \in RawLines \cup {EOF} } :
         Count(from_user_queue, v)
           + Cardinality({ r \in Threads : rpc[r] = "put"
                              /\ Forwarded(raw_command[r]) = v })
           = Count(Map(Forwarded, delivered), v)
    /\ Len(from_user_queue) + Cardinality({ r \in Threads : rpc[r] = "put" })
         = Len(delivered)
    /\ \A m \in Msgs :
         Count(stdout, m \o << NL >>)
           + Cardinality({ w \in Threads : wpc[w] = "write"
                              /\ response[w] = m })
           = Count(taken, m)
    /\ Len(stdout) + Cardinality({ w \in Threads : wpc[w] = "write" })
         = Len(taken)

\* The bridge has been stopped while a reader loop holds a consumed line and
\* a writer loop holds a taken string.
C9_Witness ==
    /\ ~running
    /\ lastCall = "stop"
    /\ \E r \in Threads : rpc[r] = "put" /\ raw_command[r] # EOF
    /\ \E w \in Threads : wpc[w] = "write"

\* ----------------------------------------------------------------- C10
\* C10: the output stream holds the strings in the order in which they were
\* put on the to-user queue.
C10_OutputKeepsPutOrder ==
    IsPrefix(stdout, [i \in 1..Len(AllPut) |-> AllPut[i] \o << NL >>])

\* ----------------------------------------------------------------- C11
\* A reader loop completes its put for the raw line it holds.
PutsLine(r) ==
    /\ rpc[r] = "put"
    /\ rpc'[r] # "put"
    /\ raw_command[r] # EOF

TrailingNewlines(s) ==
    Cardinality({ k \in 1..Len(s) :
                    \A i \in (Len(s) - k + 1)..Len(s) : s[i] = NL })

\* C11 as stated: the value put is the raw line with exactly one trailing
\* newline removed, and the raw line itself if it has none.
C11_ExactlyOneNewlineRemoved ==
    [][\A r \in Threads : PutsLine(r) =>
         from_user_queue' =
           Append(from_user_queue,
                  Str(IF raw_command[r][Len(raw_command[r])] = NL
                      THEN SubSeq(raw_command[r], 1, Len(raw_command[r]) - 1)
                      ELSE raw_command[r]))]_vars

\* C11 (amended): the value put is the raw line with all of its trailing
\* newlines removed (the raw line itself if it has none); for a raw line
\* ending in at most one newline that is the raw line with exactly one
\* trailing newline removed.
C11_AllTrailingNewlinesRemoved ==
    [][\A r \in Threads : PutsLine(r) =>
         LET raw == raw_command[r]
             n == Len(raw) - TrailingNewlines(raw)
         IN from_user_queue' = Append(from_user_queue, Str(SubSeq(raw, 1, n)))
       ]_vars

\* A raw line ending in two newlines has been forwarded without either.
C11_Witness ==
    /\ delivered # <<>>
    /\ delivered[1] = << "a", NL, NL >>
    /\ from_user_queue # <<>>
    /\ from_user_queue[1] = Str(<< "a" >>)

\* ----------------------------------------------------------------- C12
\* C12: a reader loop puts the sentinel, and ends, exactly when the read
\* returned the zero-length string; a blank line (just a newline) is put as
\* the empty string and the loop goes on.
C12_SentinelIffZeroLengthRead ==
    [][\A r \in Threads : (rpc[r] = "put" /\ rpc'[r] # "put") =>
         /\ Len(from_user_queue') = Len(from_user_queue) + 1
         /\ (from_user_queue'[Len(from_user_queue')] = None)
              <=> (Len(raw_command[r]) = 0)
         /\ (rpc'[r] = "done") <=> (Len(raw_command[r]) = 0)
         /\ raw_command[r] = << NL >> =>
              /\ from_user_queue' = Append(from_user_queue, Str(<<>>))
              /\ rpc'[r] = "top"
       ]_vars

\* The only reader loop has forwarded a blank line as the empty string and
\* has read the stream again.
C12_Witness ==
    /\ Launched = 1
    /\ Len(delivered) >= 2
    /\ delivered[1] = << NL >>
    /\ from_user_queue # <<>>
    /\ from_user_queue[1] = Str(<<>>)

\* ----------------------------------------------------------------- C13
SeenEndOfStream == Count(delivered, EOF) >= 1

Stopped == ~running /\ ownerPc = "idle"

\* C14: while the bridge is stopped nothing is written to the output
\* stream, and a string on the to-user queue stays there.
C14_NoOutputWhileStopped ==
    [][Stopped => (stdout' = stdout /\ IsPrefix(to_user_queue, to_user_queue'))
      ]_vars

\* ----------------------------------------------------------------- C15
\* The reader loop of the current start() has ended while the flag is set.
CurrentReaderEnded ==
    /\ running
    /\ from_user_thread # NoThread
    /\ rpc[from_user_thread] = "done"

\* C15: a read that raises ends the reader loop that made it and changes
\* nothing else: the flag, the other loops, the queues and the streams are
\* as before; the writer loop goes on delivering what is put, and stop()
\* still returns.
C15_ReadErrorEndsOnlyThatReader ==
    /\ [][\A r \in Threads : (rpc[r] = "readline" /\ rpc'[r] = "done") =>
            /\ UNCHANGED << running, to_user_thread, from_user_thread,
                            raw_command, wpc, response, ownerPc, ioVars >>
            /\ \A q \in Threads \ {r} : rpc'[q] = rpc[q]
         ]_vars
    /\ \A n \in 1..MaxPut :
         (CurrentReaderEnded /\ n \in putRunning)
            ~> (WrittenUpTo(n) \/ (~running /\ Len(taken) < n))
    /\ (ownerPc # "idle") ~> (ownerPc = "idle")

\* The current reader loop has ended on a failed read; the flag is still set
\* and the writer loop has written a string put while running.
C15_Witness ==
    /\ CurrentReaderEnded
    /\ delivered = <<>>
    /\ 1 \in putRunning
    /\ WrittenUpTo(1)
    /\ WriterActive(to_user_thread)

\* ----------------------------------------------------------------- C16
ReaderStep ==
    \E r \in Threads :
        \/ ReaderLoopTop(r)
        \/ ReaderReadline(r)
        \/ ReaderReadError(r)
        \/ ReaderPut(r)

WriterStep ==
    \E w \in Threads :
        \/ WriterLoopTop(w)
        \/ WriterGet(w)
        \/ WriterWrite(w)

\* C16: no step of a reader loop or of a writer loop changes the running
\* flag; a reader step leaves the to-user queue and the output stream alone
\* and a writer step leaves the from-user queue and the input stream alone.
C16_LoopsLeaveFlagAndOtherSideAlone ==
    [][ /\ ReaderStep =>
             UNCHANGED << running, to_user_queue, stdout, flushed, taken >>
        /\ WriterStep =>
             UNCHANGED << running, from_user_queue, stdin, delivered >>
        /\ running' # running => (Start \/ Stop)
      ]_vars

\* Both loops have done all of their steps: a line was read and forwarded, a
\* string was taken and written, a reader loop saw end-of-stream, and the
\* flag is still set.
C16_Witness ==
    /\ running
    /\ Len(from_user_queue) >= 2
    /\ from_user_queue[Len(from_user_queue)] = None
    /\ stdout # <<>>
    /\ \E w \in Threads : wpc[w] = "get"

\* ----------------------------------------------------------------- C17
\* C17: a reader loop whose read returns forwards the result and goes back
\* to the loop test (or ends, on end-of-stream); at the loop test it ends if
\* the flag is cleared and reads again if the flag is set, so a loop left
\* blocked by stop() ends after one more read result unless start() has set
\* the flag again by then, in which case it keeps looping.
C17_BlockedReaderEndsAfterOneRead ==
    /\ [][\A r \in Threads :
            /\ (rpc[r] = "readline" /\ rpc'[r] = "put") =>
                 (stdin # <<>> /\ raw_command'[r] = Head(stdin))
            /\ (rpc[r] = "put" /\ rpc'[r] # "put") =>
                 /\ from_user_queue' =
                      Append(from_user_queue, Forwarded(raw_command[r]))
                 /\ rpc'[r] = IF raw_command[r] = EOF THEN "done" ELSE "top"
            /\ (rpc[r] = "top" /\ rpc'[r] # "top") =>
                 rpc'[r] = IF running THEN "readline" ELSE "done"
         ]_vars
    /\ \A r \in Threads :
         (~running /\ rpc[r] = "put") ~> (rpc[r] = "done" \/ running)

\* The bridge is stopped and its only reader loop has ended after forwarding
\* one line, with further input waiting unread on the stream.
C17_Witness ==
    /\ ~running
    /\ lastCall = "stop"
    /\ Launched = 1
    /\ rpc[1] = "done"
    /\ Len(delivered) = 1
    /\ delivered[1] # EOF
    /\ Len(from_user_queue) = 1
    /\ stdin # <<>>

TypeOK ==
    /\ running \in BOOLEAN
    /\ to_user_thread \in Threads \cup {NoThread}
    /\ from_user_thread \in Threads \cup {NoThread}
    /\ ownerPc \in {"idle", "join_to_user", "join_from_user"}
    /\ flushed \in 0..Len(stdout)
====
